---- MODULE Spec2Model ----
(***************************************************************************)
(* Model of keepa_crawler's KeepaClient (src/src/client.py): the pending   *)
(* request table, the caller threads running get_historical_prices, the    *)
(* background thread running _ws_run_forever and the thread calling        *)
(* close().  Every block the code runs under self._lock is one atomic      *)
(* step; the steps between two lock blocks are separate actions.           *)
(***************************************************************************)
EXTENDS Integers, Sequences, FiniteSets, TLC

\* ---------------------------------------------------------------- bounds
NumCallers == 2
NumKeys == 2
MaxBytes == 2

Callers == 1..NumCallers
Keys == 1..NumKeys

\* ---------------------------------------------------- program constants
\* datetime.datetime(2011, 1, 1).timestamp() on a host whose zone is UTC
KEEPA_EPOCH == 1293840000

TYPES ==
  << "AMAZON", "NEW", "USED", "SALES", "LISTPRICE", "COLLECTIBLE",
     "REFURBISHED", "NEW_FBM_SHIPPING", "LIGHTNING_DEAL", "WAREHOUSE",
     "NEW_FBA", "COUNT_NEW", "COUNT_USED", "COUNT_REFURBISHED",
     "COUNT_COLLECTIBLE", "EXTRA_INFO_UPDATES", "RATING", "COUNT_REVIEWS",
     "BUY_BOX_SHIPPING", "USED_NEW_SHIPPING", "USED_VERY_GOOD_SHIPPING",
     "USED_GOOD_SHIPPING", "USED_ACCEPTABLE_SHIPPING",
     "COLLECTIBLE_NEW_SHIPPING", "COLLECTIBLE_VERY_GOOD_SHIPPING",
     "COLLECTIBLE_GOOD_SHIPPING", "COLLECTIBLE_ACCEPTABLE_SHIPPING",
     "REFURBISHED_SHIPPING", "EBAY_NEW_SHIPPING", "EBAY_USED_SHIPPING",
     "TRADE_IN", "RENT", "BUY_BOX_USED_SHIPPING", "PRIME_EXCL" >>

\* INDEX_TO_TYPE = {i: t for i, t in enumerate(TYPES)}, keyed from 0
INDEX_TO_TYPE == [i \in 0..(Len(TYPES) - 1) |-> TYPES[i + 1]]

\* ------------------------------------------------------- response decoding
\* One entry of product['csv']: JSON null, a flat list of integers, or a
\* value that cannot be sliced (a JSON number).
CsvNull == [tag |-> "null", vals |-> <<>>]
CsvList(v) == [tag |-> "list", vals |-> v]
CsvScalar == [tag |-> "scalar", vals |-> <<>>]

keepa_to_datetime(keepa_timestamp_minutes) ==
  (keepa_timestamp_minutes * 60) + KEEPA_EPOCH

\* [(keepa_to_datetime(ts), price)
\*    for ts, price in zip(csv_entry[::2], csv_entry[1::2])]
DecodeEntry(vals) ==
  [j \in 1..(Len(vals) \div 2) |->
     << keepa_to_datetime(vals[2 * j - 1]), vals[2 * j] >>]

\* The exception the loop over product['csv'] raises, "None" when it
\* raises none: KeyError at the first index outside INDEX_TO_TYPE,
\* TypeError at the first entry that is neither null nor a list.
FirstFailure(csv) ==
  LET bad == {i \in 1..Len(csv) :
                \/ (i - 1) \notin DOMAIN INDEX_TO_TYPE
                \/ csv[i].tag = "scalar"}
  IN  IF bad = {} THEN "None"
      ELSE LET i == CHOOSE x \in bad : \A y \in bad : x <= y
           IN  IF (i - 1) \notin DOMAIN INDEX_TO_TYPE
               THEN "KeyError" ELSE "TypeError"

\* price_data as built by a loop that raised nothing
PriceData(csv) ==
  [t \in {INDEX_TO_TYPE[i - 1] : i \in 1..Len(csv)} |->
     LET i == CHOOSE x \in 1..Len(csv) : INDEX_TO_TYPE[x - 1] = t
     IN  IF csv[i].tag = "null" THEN <<>> ELSE DecodeEntry(csv[i].vals)]

\* ------------------------------------------------------- inbound frames
\* What the service holds for a key: the prices carry the key.
CsvA(k) == << CsvList(<< 0, 1999 + k >>) >>
CsvB(k) == << CsvNull, CsvList(<< 1440, 500 + k, 7 >>) >>
CsvEmpty == << >>
CsvBadEntry == << CsvNull, CsvScalar >>
CsvTooLong == [i \in 1..(Len(TYPES) + 1) |-> CsvNull]

ProductFrames ==
  [kind : {"product"}, asin : Keys, csv : {CsvEmpty, CsvBadEntry, CsvTooLong}]
  \cup {[kind |-> "product", asin |-> k, csv |-> CsvA(k)] : k \in Keys}
  \cup {[kind |-> "product", asin |-> k, csv |-> CsvB(k)] : k \in Keys}

\* a frame without 'products', and a frame that does not inflate or parse
OtherFrames ==
  { [kind |-> "noproducts", asin |-> 0, csv |-> <<>>],
    [kind |-> "garbage", asin |-> 0, csv |-> <<>>] }

Frames == ProductFrames \cup OtherFrames

\* the frames the service sends under FairSpec: per key a valid product, a
\* product whose csv does not decode, and a frame without products
LiveFrames ==
  {[kind |-> "product", asin |-> k, csv |-> CsvA(k)] : k \in Keys}
  \cup [kind : {"product"}, asin : Keys, csv : {CsvBadEntry}]
  \cup {[kind |-> "noproducts", asin |-> 0, csv |-> <<>>]}

\* ------------------------------------------------------------- the codec
\* Texts are sequences of code points, frames are sequences of bytes.
Alphabet == (97..105) \cup {233}

\* str.encode(): UTF-8, one byte below U+0080, two below U+0800
RECURSIVE Utf8Encode(_)
Utf8Encode(s) ==
  IF s = << >> THEN << >>
  ELSE (IF Head(s) < 128 THEN << Head(s) >>
        ELSE << 192 + (Head(s) \div 64), 128 + (Head(s) % 64) >>)
       \o Utf8Encode(Tail(s))

CodecOk(v) == [ok |-> TRUE, value |-> v, error |-> "None"]
CodecError(e) == [ok |-> FALSE, value |-> << >>, error |-> e]

\* bytes.decode()
RECURSIVE Utf8Decode(_)
Utf8Decode(b) ==
  IF b = << >> THEN CodecOk(<< >>)
  ELSE IF b[1] < 128
       THEN LET r == Utf8Decode(Tail(b))
            IN  IF r.ok THEN CodecOk(<< b[1] >> \o r.value) ELSE r
  ELSE IF b[1] \in 194..223 /\ Len(b) >= 2 /\ b[2] \in 128..191
       THEN LET r == Utf8Decode(SubSeq(b, 3, Len(b)))
            IN  IF r.ok
                THEN CodecOk(<< (b[1] - 192) * 64 + (b[2] - 128) >> \o r.value)
                ELSE r
  ELSE CodecError("UnicodeDecodeError")

\* the value of n bits from position pos, first bit most / least significant
RECURSIVE MsbValue(_, _, _)
MsbValue(bits, pos, n) ==
  IF n = 0 THEN 0 ELSE 2 * MsbValue(bits, pos, n - 1) + bits[pos + n - 1]

RECURSIVE LsbValue(_, _, _)
LsbValue(bits, pos, n) ==
  IF n = 0 THEN 0 ELSE bits[pos] + 2 * LsbValue(bits, pos + 1, n - 1)

MsbBits(v, n) == [i \in 1..n |-> (v \div (2 ^ (n - i))) % 2]

\* a deflate stream is read from the low bit of each byte upwards
Unpack(data) ==
  [i \in 1..(8 * Len(data)) |->
     (data[((i - 1) \div 8) + 1] \div (2 ^ ((i - 1) % 8))) % 2]

Pack(bits) ==
  LET padded == bits \o [i \in 1..((8 - (Len(bits) % 8)) % 8) |-> 0]
  IN  [j \in 1..(Len(padded) \div 8) |-> LsbValue(padded, 8 * (j - 1) + 1, 8)]

\* the fixed Huffman code of RFC 1951, 3.2.6
FixedCode(sym) ==
  IF sym < 144 THEN MsbBits(48 + sym, 8)
  ELSE IF sym < 256 THEN MsbBits(400 + (sym - 144), 9)
  ELSE IF sym < 280 THEN MsbBits(sym - 256, 7)
  ELSE MsbBits(192 + (sym - 280), 8)

RECURSIVE Literals(_)
Literals(bytes) ==
  IF bytes = << >> THEN << >>
  ELSE FixedCode(Head(bytes)) \o Literals(Tail(bytes))

\* the deflate stream zlib writes for an input too short for a back
\* reference (under 4 bytes): one final block with the fixed code, the
\* literals, end-of-block
Deflate(bytes) ==
  Pack(<< 1, 1, 0 >> \o Literals(bytes) \o FixedCode(256))

RECURSIVE Adler32Sums(_, _, _)
Adler32Sums(bytes, a, b) ==
  IF bytes = << >> THEN << a, b >>
  ELSE Adler32Sums(Tail(bytes), (a + Head(bytes)) % 65521,
                   (b + ((a + Head(bytes)) % 65521)) % 65521)

\* zlib.compress(data, level=zlib.Z_BEST_COMPRESSION): the zlib container
\* of RFC 1950, CMF and FLG (0x78 0xDA), the deflate stream, the Adler-32
\* of the input, high byte first
ZlibCompress(bytes) ==
  LET sums == Adler32Sums(bytes, 1, 0)
  IN  << 120, 218 >> \o Deflate(bytes)
      \o << sums[2] \div 256, sums[2] % 256, sums[1] \div 256, sums[1] % 256 >>

\* one block with the fixed code, from pos to its end-of-block
RECURSIVE InflateFixed(_, _, _)
InflateFixed(bits, pos, out) ==
  IF pos + 6 > Len(bits) THEN [ok |-> FALSE, out |-> out, pos |-> pos]
  ELSE IF MsbValue(bits, pos, 7) <= 23
       THEN [ok |-> MsbValue(bits, pos, 7) = 0, out |-> out, pos |-> pos + 7]
  ELSE IF pos + 7 > Len(bits) THEN [ok |-> FALSE, out |-> out, pos |-> pos]
  ELSE IF MsbValue(bits, pos, 8) \in 48..191
       THEN InflateFixed(bits, pos + 8,
                         Append(out, MsbValue(bits, pos, 8) - 48))
  ELSE IF MsbValue(bits, pos, 8) \in 192..199 \/ pos + 8 > Len(bits)
       THEN [ok |-> FALSE, out |-> out, pos |-> pos]
  ELSE InflateFixed(bits, pos + 9,
                    Append(out, 144 + (MsbValue(bits, pos, 9) - 400)))

\* the blocks of a raw deflate stream from pos on.  A stored block (type 0)
\* carries LEN and its complement NLEN on the next byte boundary; a length
\* code or a dynamic block (type 2) is not decoded, no frame here has one.
RECURSIVE InflateBlocks(_, _, _)
InflateBlocks(bits, pos, out) ==
  IF pos + 2 > Len(bits) THEN CodecError("zlib.error: incomplete stream")
  ELSE
    LET final == bits[pos] = 1
        btype == bits[pos + 1] + 2 * bits[pos + 2]
        p == ((pos + 9) \div 8) * 8 + 1
    IN  IF btype = 0
        THEN IF p + 31 > Len(bits)
             THEN CodecError("zlib.error: incomplete stream")
             ELSE LET len == LsbValue(bits, p, 16)
                      nlen == LsbValue(bits, p + 16, 16)
                      copied == [i \in 1..len |->
                                   LsbValue(bits, p + 32 + 8 * (i - 1), 8)]
                  IN  IF len + nlen # 65535
                      THEN CodecError("zlib.error: invalid stored block lengths")
                      ELSE IF p + 31 + 8 * len > Len(bits)
                      THEN CodecError("zlib.error: incomplete stream")
                      ELSE IF final THEN CodecOk(out \o copied)
                      ELSE InflateBlocks(bits, p + 32 + 8 * len, out \o copied)
        ELSE IF btype = 1
        THEN LET r == InflateFixed(bits, pos + 3, out)
             IN  IF ~r.ok THEN CodecError("zlib.error: invalid code")
                 ELSE IF final THEN CodecOk(r.out)
                 ELSE InflateBlocks(bits, r.pos, r.out)
        ELSE CodecError("zlib.error: invalid block type")

\* zlib.decompress(data, wbits=-zlib.MAX_WBITS): a raw deflate stream, no
\* container
Inflate(data) == InflateBlocks(Unpack(data), 1, << >>)

\* lines 341-344
_compress(message) == ZlibCompress(Utf8Encode(message))

\* lines 346-349
_decompress(data) ==
  LET r == Inflate(data)
  IN  IF r.ok THEN Utf8Decode(r.value) ELSE r

\* --------------------------------------------------------------- state
VARIABLES
  running,    \* self._running
  ws,         \* self.ws: "none", or a handle that is "open" or "closed"
  pending,    \* self.pending_events: key -> [owner, error]
  products,   \* self.products: key -> price_data
  ev,         \* ev[c]: the Event of caller c's current call is set
  pc,         \* position of each caller in get_historical_prices
  key,        \* asin argument of each caller's current (or last) call
  result,     \* what each caller's last call returned or raised
  sent,       \* ws.send returned normally in the caller's current call
  cancelled,  \* callers whose record a _reconnect signalled and cleared
  wpc,        \* position of the background thread in _ws_run_forever
  cpc,        \* position of the thread running close()
  threads,    \* number of live KeepaWebSocketThread threads
  lock,       \* holder of self._lock
  codec       \* a text on its way through _compress and _decompress

vars == << running, ws, pending, products, ev, pc, key, result, sent,
           cancelled, wpc, cpc, threads, lock, codec >>

clientVars == << running, ws, pending, products, ev, pc, key, result, sent,
                 cancelled, wpc, cpc, threads, lock >>

\* self._lock = threading.Lock(): its holder is a caller, the background
\* thread, or nobody
LockFree == 0 - 1
Worker == 0

\* self._lock.acquire() with no release at the end of the block
WithLock_NoRelease(t) ==
  /\ lock \in {LockFree, t}
  /\ lock' = t

\* "with self._lock:" around a block that runs to its end: the block runs
\* once thread t has the lock, and leaves it free
WithLock(t) ==
  /\ lock \in {LockFree, t}
  /\ lock' = LockFree

callerVars == << pc, key, result, sent >>

NoData == << >>
Outcome(kind, data) == [kind |-> kind, data |-> data]
Raise(kind) == Outcome(kind, NoData)

\* dict helpers
Has(d, k) == k \in DOMAIN d
Del(d, k) == [x \in (DOMAIN d) \ {k} |-> d[x]]
Put(d, k, v) == [x \in (DOMAIN d) \cup {k} |-> IF x = k THEN v ELSE d[x]]
EmptyDict == << >>

\* the texts whose encoding has at most MaxBytes bytes
Texts ==
  {s \in UNION {[1..n -> Alphabet] : n \in 0..MaxBytes} :
     Len(Utf8Encode(s)) <= MaxBytes}

Text(s) == [stage |-> "text", s |-> s, frame |-> << >>, out |-> CodecOk(<< >>)]

\* the client as __init__ leaves it, the transport connected
Constructed ==
  /\ running = TRUE
  /\ ws = "open"
  /\ pending = EmptyDict
  /\ products = EmptyDict
  /\ ev = [c \in Callers |-> FALSE]
  /\ pc = [c \in Callers |-> "idle"]
  /\ key = [c \in Callers |-> 1]
  /\ result = [c \in Callers |-> Raise("None")]
  /\ sent = [c \in Callers |-> FALSE]
  /\ cancelled = {}
  /\ wpc = "top"
  /\ cpc = "idle"
  /\ threads = 1
  /\ lock = LockFree

Init ==
  /\ Constructed
  /\ codec = Text(<< >>)

\* ------------------------------------------------ get_historical_prices
Return(c, outcome) ==
  /\ pc' = [pc EXCEPT ![c] = "idle"]
  /\ result' = [result EXCEPT ![c] = outcome]
  /\ ev' = [ev EXCEPT ![c] = FALSE]      \* the Event is local to the call
  /\ cancelled' = cancelled \ {c}

\* lines 217-222: the connection check, then the frame is built
Call(c, k) ==
  /\ pc[c] = "idle"
  /\ key' = [key EXCEPT ![c] = k]
  /\ sent' = [sent EXCEPT ![c] = FALSE]
  /\ IF ~running \/ ws = "none"
     THEN Return(c, Raise("KeepaConnectionError"))
     ELSE /\ pc' = [pc EXCEPT ![c] = "reg"]
          /\ result' = [result EXCEPT ![c] = Raise("None")]
          /\ UNCHANGED << ev, cancelled >>
  /\ UNCHANGED << running, ws, pending, products, wpc, cpc, threads, lock >>
  /\ UNCHANGED codec

\* Register without the duplicate test of line 225
Register_Overwrite(c) ==
  /\ pc[c] = "reg"
  /\ pending' = Put(pending, key[c], [owner |-> c, error |-> "None"])
  /\ ev' = [ev EXCEPT ![c] = FALSE]
  /\ pc' = [pc EXCEPT ![c] = "send"]
  /\ UNCHANGED << result, cancelled >>
  /\ WithLock(c)
  /\ UNCHANGED << running, ws, products, key, sent, wpc, cpc, threads >>
  /\ UNCHANGED codec

\* lines 224-229, under the lock
Register(c) ==
  /\ pc[c] = "reg"
  /\ IF Has(pending, key[c])
     THEN /\ Return(c, Raise("ValueError"))
          /\ UNCHANGED pending
     ELSE /\ pending' = Put(pending, key[c], [owner |-> c, error |-> "None"])
          /\ ev' = [ev EXCEPT ![c] = FALSE]
          /\ pc' = [pc EXCEPT ![c] = "send"]
          /\ UNCHANGED << result, cancelled >>
  /\ WithLock(c)
  /\ UNCHANGED << running, ws, products, key, sent, wpc, cpc, threads >>
  /\ UNCHANGED codec

\* lines 231-237: ws.send raises on a handle that is no longer connected;
\* the handler's del raises KeyError when the key is gone from the table
Send(c) ==
  /\ pc[c] = "send"
  /\ IF ws = "open"
     THEN /\ sent' = [sent EXCEPT ![c] = TRUE]
          /\ pc' = [pc EXCEPT ![c] = "wait"]
          /\ UNCHANGED << pending, result, ev, cancelled, lock >>
     ELSE /\ WithLock(c)
          /\ IF Has(pending, key[c])
             THEN /\ pending' = Del(pending, key[c])
                  /\ Return(c, Raise("KeepaConnectionError"))
             ELSE /\ UNCHANGED pending
                  /\ Return(c, Raise("KeyError"))
          /\ UNCHANGED sent
  /\ UNCHANGED << running, ws, products, key, wpc, cpc, threads >>
  /\ UNCHANGED codec

\* event.wait() without a timeout: it never returns False
WaitTimeout_Never(c) ==
  /\ pc[c] = "wait"
  /\ FALSE
  /\ UNCHANGED vars

\* line 239: event.wait(timeout) returns False
WaitTimeout(c) ==
  /\ pc[c] = "wait"
  /\ ~ev[c]
  /\ pc' = [pc EXCEPT ![c] = "tmo"]
  /\ UNCHANGED << running, ws, pending, products, ev, key, result, sent,
                  cancelled, wpc, cpc, threads, lock >>
  /\ UNCHANGED codec

\* TimeoutCleanup that unregisters only while the client is connected
TimeoutCleanup_IfConnected(c) ==
  /\ pc[c] = "tmo"
  /\ pending' = IF Has(pending, key[c]) /\ running /\ ws = "open"
                THEN Del(pending, key[c]) ELSE pending
  /\ Return(c, Raise("KeepaTimeoutError"))
  /\ WithLock(c)
  /\ UNCHANGED << running, ws, products, key, sent, wpc, cpc, threads >>
  /\ UNCHANGED codec

\* lines 240-245
TimeoutCleanup(c) ==
  /\ pc[c] = "tmo"
  /\ pending' = IF Has(pending, key[c]) THEN Del(pending, key[c]) ELSE pending
  /\ Return(c, Raise("KeepaTimeoutError"))
  /\ WithLock(c)
  /\ UNCHANGED << running, ws, products, key, sent, wpc, cpc, threads >>
  /\ UNCHANGED codec

\* lines 251-259, from the values popped at lines 248-249
Translate(hasEntry, entry, hasData, data) ==
  IF hasEntry /\ entry.error # "None" THEN Raise(entry.error)
  ELSE IF ~hasData \/ DOMAIN data = {} THEN Raise("KeepaAPIError")
  ELSE Outcome("Ok", data)

\* line 239 (event.wait returns True) and lines 247-259
Pop(c) ==
  /\ pc[c] = "wait"
  /\ ev[c]
  /\ pending' = IF Has(pending, key[c]) THEN Del(pending, key[c]) ELSE pending
  /\ products' = IF Has(products, key[c]) THEN Del(products, key[c])
                 ELSE products
  /\ Return(c, Translate(Has(pending, key[c]),
                         IF Has(pending, key[c]) THEN pending[key[c]]
                         ELSE [owner |-> c, error |-> "None"],
                         Has(products, key[c]),
                         IF Has(products, key[c]) THEN products[key[c]]
                         ELSE NoData))
  /\ WithLock(c)
  /\ UNCHANGED << running, ws, key, sent, wpc, cpc, threads >>
  /\ UNCHANGED codec

\* ----------------------------------------------------------- _on_message
\* Resolve without the membership test of line 295: the snapshot of an
\* unknown key is stored all the same
Resolve_Unchecked(asin, error, price_data) ==
  /\ IF error # "None" /\ Has(pending, asin)
     THEN /\ pending' = [pending EXCEPT ![asin].error = error]
          /\ UNCHANGED products
     ELSE /\ products' = IF error = "None"
                         THEN Put(products, asin, price_data) ELSE products
          /\ UNCHANGED pending
  /\ ev' = IF Has(pending, asin)
           THEN [ev EXCEPT ![pending[asin].owner] = TRUE] ELSE ev

\* Resolve that hands a response to the lowest pending key, whatever key
\* the response carries
Resolve_Oldest(asin, error, price_data) ==
  IF pending # EmptyDict
  THEN LET k == CHOOSE x \in DOMAIN pending : \A y \in DOMAIN pending : x <= y
       IN  /\ IF error # "None"
              THEN /\ pending' = [pending EXCEPT ![k].error = error]
                   /\ UNCHANGED products
              ELSE /\ products' = Put(products, k, price_data)
                   /\ UNCHANGED pending
           /\ ev' = [ev EXCEPT ![pending[k].owner] = TRUE]
  ELSE UNCHANGED << pending, products, ev >>

\* lines 294-302, under the lock
Resolve(asin, error, price_data) ==
  IF Has(pending, asin)
  THEN /\ IF error # "None"
          THEN /\ pending' = [pending EXCEPT ![asin].error = error]
               /\ UNCHANGED products
          ELSE /\ products' = Put(products, asin, price_data)
               /\ UNCHANGED pending
       /\ ev' = [ev EXCEPT ![pending[asin].owner] = TRUE]
  ELSE UNCHANGED << pending, products, ev >>

\* lines 261-305: called by ws.run_forever on the background thread
OnMessage(f) ==
  /\ wpc = "run"
  /\ IF f.kind = "product"
     THEN /\ ws = "open" \/ lock = Worker
          /\ WithLock(Worker)
          /\ Resolve(f.asin, FirstFailure(f.csv),
                     IF FirstFailure(f.csv) = "None" THEN PriceData(f.csv)
                     ELSE NoData)
     ELSE /\ ws = "open"
          /\ lock # Worker
          /\ UNCHANGED << pending, products, ev, lock >>
  /\ UNCHANGED << running, ws, callerVars, cancelled, wpc, cpc, threads >>
  /\ UNCHANGED codec

\* the service or the network ends the connection
Drop ==
  /\ ws = "open"
  /\ ws' = "closed"
  /\ UNCHANGED << running, pending, products, ev, callerVars, cancelled,
                  wpc, cpc, threads, lock >>
  /\ UNCHANGED codec

\* ------------------------------------------------------- _ws_run_forever
ThreadAlive == wpc # "exit"

\* "while True:" in place of line 139
WLoop_Forever ==
  /\ wpc = "top"
  /\ wpc' = "run"
  /\ UNCHANGED << running, ws, pending, products, ev, callerVars,
                  cancelled, cpc, threads, lock >>
  /\ UNCHANGED codec

\* line 139
WLoop ==
  /\ wpc = "top"
  /\ wpc' = IF running THEN "run" ELSE "exit"
  /\ threads' = IF running THEN threads ELSE threads - 1
  /\ UNCHANGED << running, ws, pending, products, ev, callerVars,
                  cancelled, cpc, lock >>
  /\ UNCHANGED codec

\* lines 140-144: run_forever returns or raises once the handle is closed
WRunEnds ==
  /\ wpc = "run"
  /\ ws # "open"
  /\ lock # Worker
  /\ wpc' = "check"
  /\ UNCHANGED threads
  /\ UNCHANGED << running, ws, pending, products, ev, callerVars,
                  cancelled, cpc, lock >>
  /\ UNCHANGED codec

\* lines 146-150
WCheck ==
  /\ wpc = "check"
  /\ wpc' = IF running THEN "sleep" ELSE "top"
  /\ UNCHANGED threads
  /\ UNCHANGED << running, ws, pending, products, ev, callerVars,
                  cancelled, cpc, lock >>
  /\ UNCHANGED codec

\* line 151: the reconnect interval elapses
WSleep ==
  /\ wpc = "sleep"
  /\ wpc' = "clear"
  /\ UNCHANGED threads
  /\ UNCHANGED << running, ws, pending, products, ev, callerVars,
                  cancelled, cpc, lock >>
  /\ UNCHANGED codec

Owners(d) == {d[k].owner : k \in DOMAIN d}

\* _reconnect, lines 157-161, under the lock
ReconnectClear ==
  /\ wpc = "clear"
  /\ products' = EmptyDict
  /\ ev' = [c \in Callers |-> ev[c] \/ c \in Owners(pending)]
  /\ cancelled' = cancelled \cup Owners(pending)
  /\ pending' = EmptyDict
  /\ wpc' = "closews"
  /\ WithLock(Worker)
  /\ UNCHANGED << running, ws, callerVars, cpc, threads >>
  /\ UNCHANGED codec

\* _reconnect, lines 163-167
ReconnectCloseWs ==
  /\ wpc = "closews"
  /\ ws' = IF ws = "none" THEN "none" ELSE "closed"
  /\ wpc' = "connect"
  /\ UNCHANGED << running, pending, products, ev, callerVars, cancelled,
                  cpc, threads, lock >>
  /\ UNCHANGED codec

\* _connect without the test of lines 106-107
Connect_Unguarded ==
  /\ ws' = "open"
  /\ running' = TRUE
  /\ threads' = threads + 1

\* _connect, lines 104-135, for a transport that accepts the connection
Connect ==
  IF ThreadAlive
  THEN UNCHANGED << ws, running, threads >>
  ELSE /\ ws' = "open"
       /\ running' = TRUE
       /\ threads' = threads + 1

\* _reconnect, lines 169-172, then back to line 139
ReconnectConnect ==
  /\ wpc = "connect"
  /\ Connect
  /\ wpc' = "top"
  /\ UNCHANGED << pending, products, ev, callerVars, cancelled, cpc, lock >>
  /\ UNCHANGED codec

\* ------------------------------------------------------------------ close
\* line 176
CloseSignal ==
  /\ cpc = "idle"
  /\ running' = FALSE
  /\ cpc' = "ws"
  /\ UNCHANGED << ws, pending, products, ev, callerVars, cancelled, wpc,
                  threads, lock >>
  /\ UNCHANGED codec

\* an except clause that lets the exception leave close()
CloseCatch_Reraise(next) == cpc' = "raised"

\* "except Exception as e: logger.error(...)", lines 181-182 and 191-192:
\* close() goes on with its next statement
CloseCatch(next) == cpc' = next

\* lines 178-182: ws.close() closes the handle, or raises and leaves it
CloseWs ==
  /\ cpc = "ws"
  /\ \E raises \in BOOLEAN :
       IF raises /\ ws # "none"
       THEN /\ UNCHANGED ws
            /\ CloseCatch("join")
       ELSE /\ ws' = IF ws = "none" THEN "none" ELSE "closed"
            /\ cpc' = "join"
  /\ UNCHANGED << running, pending, products, ev, callerVars, cancelled,
                  wpc, threads, lock >>
  /\ UNCHANGED codec

\* lines 184-187: join returns when the thread has ended or after 5 seconds
CloseJoin ==
  /\ cpc = "join"
  /\ cpc' = "session"
  /\ UNCHANGED << running, ws, pending, products, ev, callerVars,
                  cancelled, wpc, threads, lock >>
  /\ UNCHANGED codec

\* lines 189-194: session.close() returns or raises
CloseSession ==
  /\ cpc = "session"
  /\ \E raises \in BOOLEAN :
       IF raises THEN CloseCatch("closed") ELSE cpc' = "closed"
  /\ UNCHANGED << running, ws, pending, products, ev, callerVars,
                  cancelled, wpc, threads, lock >>
  /\ UNCHANGED codec

\* ------------------------------------------------------- codec round trip
\* line 222: a text is compressed into the frame to send
Compress ==
  /\ codec.stage = "text"
  /\ codec' = [codec EXCEPT !.stage = "frame", !.frame = _compress(codec.s)]
  /\ UNCHANGED clientVars

\* the service's frame for a text: the raw deflate stream line 349 reads
ServiceFrame ==
  /\ codec.stage = "text"
  /\ codec' = [codec EXCEPT !.stage = "inbound",
                            !.frame = Deflate(Utf8Encode(codec.s))]
  /\ UNCHANGED clientVars

\* line 264 applied to the frame of either origin
Decompress ==
  /\ codec.stage \in {"frame", "inbound"}
  /\ codec' = [codec EXCEPT
                 !.stage = IF codec.stage = "frame" THEN "back" ELSE "received",
                 !.out = _decompress(codec.frame)]
  /\ UNCHANGED clientVars

\* ---------------------------------------------------------- specification
NextOver(F) ==
  \/ \E c \in Callers : \E k \in Keys : Call(c, k)
  \/ \E c \in Callers : Register(c)
  \/ \E c \in Callers : Send(c)
  \/ \E c \in Callers : WaitTimeout(c)
  \/ \E c \in Callers : TimeoutCleanup(c)
  \/ \E c \in Callers : Pop(c)
  \/ \E f \in F : OnMessage(f)
  \/ Drop
  \/ WLoop
  \/ WRunEnds
  \/ WCheck
  \/ WSleep
  \/ ReconnectClear
  \/ ReconnectCloseWs
  \/ ReconnectConnect
  \/ CloseSignal
  \/ CloseWs
  \/ CloseJoin
  \/ CloseSession

Next == NextOver(Frames)

Spec == Init /\ [][Next]_vars

\* The scheduler runs every thread that can take a step, and a bounded wait
\* ends: each step inside a call, the background loop and close() is
\* weakly fair.  New calls, inbound frames, connection drops and the call
\* of close() are not.
CallerStep(c) ==
  Register(c) \/ Send(c) \/ WaitTimeout(c) \/ TimeoutCleanup(c) \/ Pop(c)

WorkerStep ==
  \/ WLoop \/ WRunEnds \/ WCheck \/ WSleep
  \/ ReconnectClear \/ ReconnectCloseWs \/ ReconnectConnect

CloseStep == CloseWs \/ CloseJoin \/ CloseSession

Fairness ==
  /\ \A c \in Callers : WF_vars(CallerStep(c))
  /\ WF_vars(WorkerStep)
  /\ WF_vars(CloseStep)

LiveNext == NextOver(LiveFrames)

FairSpec == Init /\ [][LiveNext]_vars /\ Fairness

\* The lock blocks in two steps: a thread at a "with self._lock:" takes the
\* free lock, and its block then runs while the others wait for the lock.
\* A caller is at one at line 224, at line 235 once ws.send has raised, at
\* line 240 after a timeout and at line 247 once its signal is set.
AtLockBlock(c) ==
  \/ pc[c] \in {"reg", "tmo"}
  \/ pc[c] = "send" /\ ws # "open"
  \/ pc[c] = "wait" /\ ev[c]

AcquireCaller(c) ==
  /\ lock = LockFree
  /\ AtLockBlock(c)
  /\ lock' = c
  /\ UNCHANGED << running, ws, pending, products, ev, callerVars,
                  cancelled, wpc, cpc, threads, codec >>

\* the background thread at line 157, or at line 294 inside the callback
\* run_forever calls for a product frame
AcquireWorker ==
  /\ lock = LockFree
  /\ wpc = "clear" \/ (wpc = "run" /\ ws = "open")
  /\ lock' = Worker
  /\ UNCHANGED << running, ws, pending, products, ev, callerVars,
                  cancelled, wpc, cpc, threads, codec >>

LockNext ==
  \/ LiveNext
  \/ \E c \in Callers : AcquireCaller(c)
  \/ AcquireWorker

\* a callback that has the lock runs to its end
CallbackStep == lock = Worker /\ \E f \in LiveFrames : OnMessage(f)

LockSpec ==
  Init /\ [][LockNext]_vars /\ Fairness /\ WF_vars(CallbackStep)

\* the codec on every text of Texts, the client at rest
CodecInit ==
  /\ Constructed
  /\ codec \in {Text(s) : s \in Texts}

CodecNext == Compress \/ ServiceFrame \/ Decompress

CodecSpec == CodecInit /\ [][CodecNext]_vars

\* ------------------------------------------------------------------ claims
Mine(c) == Has(pending, key[c]) /\ pending[key[c]].owner = c

ValidFramesFor(k) ==
  {f \in ProductFrames : f.asin = k /\ FirstFailure(f.csv) = "None"}

\* C1: a call that reaches the registration while its key is in the pending
\* table fails with the duplicate-request error (ValueError), has sent
\* nothing and leaves the table as it was; a call whose key is not in the
\* table registers a fresh record; and when a call that was registered
\* returns, its key is no longer in the table, so the next request for the
\* key registers.
C1_DuplicateRejected ==
  [][\A c \in Callers :
       /\ (pc[c] = "reg" /\ pc'[c] # "reg") =>
            IF Has(pending, key[c])
            THEN /\ pc'[c] = "idle"
                 /\ result'[c] = Raise("ValueError")
                 /\ ~sent'[c]
                 /\ pending' = pending
            ELSE /\ pc'[c] = "send"
                 /\ Has(pending', key[c])
                 /\ pending'[key[c]] = [owner |-> c, error |-> "None"]
                 /\ \A k \in DOMAIN pending : pending'[k] = pending[k]
       /\ (pc[c] \in {"send", "wait", "tmo"} /\ pc'[c] = "idle") =>
            ~Has(pending', key[c])]_vars

\* a duplicate call was rejected while the first request for the key waits
C1_Witness ==
  \E c1, c2 \in Callers :
    /\ c1 # c2 /\ key[c1] = key[c2]
    /\ pc[c1] = "idle" /\ result[c1] = Raise("ValueError")
    /\ pc[c2] = "wait" /\ Mine(c2)

\* C2: every caller blocked on a request that a _reconnect cleared returns
\* with a ConnectionError.
C2_ReconnectRaisesConnectionError ==
  [][\A c \in Callers :
       (c \in cancelled /\ pc[c] = "wait" /\ pc'[c] = "idle") =>
         result'[c].kind = "KeepaConnectionError"]_vars

\* C3: when close() has returned the pending table is empty and no caller
\* is still blocked on a signal that was never set.
C3_CloseCancelsPending ==
  cpc = "closed" =>
    /\ pending = EmptyDict
    /\ \A c \in Callers : pc[c] = "wait" => ev[c]

\* C4: no call gets past the connection check while the client is not
\* connected (closed, or the transport handle no longer open).
C4_NotConnectedFailsFast ==
  [][\A c \in Callers :
       (pc[c] = "idle" /\ (~running \/ ws # "open")) =>
         /\ pc'[c] = "idle"
         /\ pending' = pending
         /\ ~sent'[c]]_vars

\* C5: a call whose wait timed out fails with the timeout error, and its
\* key is not in the pending table when it returns, in every connection
\* state.
C5_TimeoutUnregisters ==
  [][\A c \in Callers :
       (pc[c] = "tmo" /\ pc'[c] # "tmo") =>
         /\ pc'[c] = "idle"
         /\ result'[c] = Raise("KeepaTimeoutError")
         /\ ~Has(pending', key[c])
         /\ \A k \in DOMAIN pending' : pending'[k] = pending[k]]_vars

\* a call timed out and unregistered after close() and the transport's end
C5_Witness ==
  \E c \in Callers :
    /\ pc[c] = "idle" /\ result[c] = Raise("KeepaTimeoutError")
    /\ ~running /\ ws = "closed"
    /\ ~Has(pending, key[c])

\* C6: a product response whose key is not in the pending table changes
\* neither the table, nor the stored results, nor any completion signal.
C6_UnknownKeyDiscarded ==
  [][\A f \in ProductFrames :
       (OnMessage(f) /\ ~Has(pending, f.asin)) =>
         UNCHANGED << pending, products, ev >>]_vars

\* the receive loop runs while one key has timed out and is gone from the
\* table and another request is still waiting, unsignalled
C6_Witness ==
  \E c1, c2 \in Callers :
    /\ wpc = "run" /\ ws = "open"
    /\ pc[c1] = "idle" /\ result[c1] = Raise("KeepaTimeoutError")
    /\ ~Has(pending, key[c1]) /\ ~Has(products, key[c1])
    /\ pc[c2] = "wait" /\ Mine(c2) /\ ~ev[c2]

\* C7: a response resolves the record of the key it carries and no other:
\* it signals that record's caller only and stores its snapshot under that
\* key only; a signalled caller whose record is still in the table with a
\* snapshot and no error returns exactly that snapshot; and every snapshot
\* a caller returns was decoded from a response carrying the caller's key.
C7_MatchedByKey ==
  [][/\ \A f \in ProductFrames :
          (OnMessage(f) /\ Has(pending, f.asin)) =>
            /\ ev'[pending[f.asin].owner]
            /\ \A c \in Callers \ {pending[f.asin].owner} : ev'[c] = ev[c]
            /\ FirstFailure(f.csv) = "None" =>
                 /\ Has(products', f.asin)
                 /\ products'[f.asin] = PriceData(f.csv)
            /\ \A k \in Keys \ {f.asin} :
                 /\ Has(products', k) = Has(products, k)
                 /\ Has(products, k) => products'[k] = products[k]
                 /\ Has(pending, k) => pending'[k] = pending[k]
     /\ \A c \in Callers :
          ( /\ pc[c] = "wait" /\ pc'[c] = "idle"
            /\ Mine(c) /\ pending[key[c]].error = "None"
            /\ Has(products, key[c]) /\ DOMAIN products[key[c]] # {} ) =>
              result'[c] = Outcome("Ok", products[key[c]])
     /\ \A c \in Callers :
          result'[c].kind = "Ok" =>
            \E f \in ValidFramesFor(key'[c]) :
              result'[c].data = PriceData(f.csv)]_vars

\* two requests for distinct keys were pending together and both were
\* answered: one caller has returned its key's snapshot, the other is
\* signalled with its own key's snapshot stored
C7_Witness ==
  \E c1, c2 \in Callers :
    /\ key[c1] # key[c2]
    /\ pc[c1] = "idle"
    /\ result[c1] = Outcome("Ok", PriceData(CsvA(key[c1])))
    /\ pc[c2] = "wait" /\ ev[c2] /\ Mine(c2)
    /\ Has(products, key[c2])
    /\ products[key[c2]] = PriceData(CsvB(key[c2]))

\* C8: while close() has not been called, a lost transport is eventually
\* re-established by the background loop (the transport accepts every
\* connection attempt).
C8_Reconnects ==
  (running /\ ws = "closed") ~> (ws = "open" \/ ~running)

\* C9: every call that has begun eventually returns with an outcome, under
\* every interleaving of responses, drops, reconnections and close().
C9_EveryCallReturns ==
  \A c \in Callers :
    (pc[c] # "idle") ~> (pc[c] = "idle" /\ result[c].kind # "None")

\* a caller nobody signalled returned through its timeout after close()
\* returned and the background loop ended
C9_Witness ==
  \E c \in Callers :
    /\ pc[c] = "idle" /\ sent[c]
    /\ result[c] = Raise("KeepaTimeoutError")
    /\ cpc = "closed" /\ wpc = "exit"

\* C10: a call whose send fails returns a ConnectionError and its key is
\* not in the pending table afterwards.
C10_SendFailureUnregisters ==
  [][\A c \in Callers :
       (pc[c] = "send" /\ pc'[c] = "idle") =>
         /\ result'[c] = Raise("KeepaConnectionError")
         /\ ~Has(pending', key[c])]_vars

\* C11: close() never raises and always completes: whatever fails during
\* the cleanup, a close() that has begun returns normally with the running
\* flag cleared.
C11_CloseCompletes ==
  /\ [](cpc # "raised")
  /\ (cpc # "idle") ~> (cpc = "closed" /\ ~running)

\* close() has returned although ws.close() raised (the handle is still
\* open) and the background loop was still running after the join
C11_Witness ==
  cpc = "closed" /\ ~running /\ ws = "open" /\ wpc = "run"

\* C12: at most one background thread exists at every moment, across
\* construction, reconnections and close().
C12_OneWorker == threads <= 1

\* a reconnection has gone through _connect and the one thread goes on
C12_Witness ==
  /\ wpc = "top" /\ ws = "closed" /\ cancelled # {}
  /\ threads = 1

\* C13: a caller whose record received a decode failure fails with the
\* protocol error (KeepaAPIError).
C13_DecodeFailureIsProtocolError ==
  [][\A c \in Callers :
       ( /\ pc[c] = "wait" /\ pc'[c] = "idle"
         /\ Mine(c) /\ pending[key[c]].error # "None" ) =>
           result'[c] = Raise("KeepaAPIError")]_vars

\* C14: the codec round-trips, _decompress(_compress(s)) = s for every
\* text s, the empty text included.
C14_RoundTrip ==
  codec.stage = "back" => codec.out = CodecOk(codec.s)

\* C15: the first event to reach a pending record fixes the outcome: once
\* a valid response is stored for a caller's record and the caller is
\* signalled, the record and the snapshot stay as they are until the caller
\* takes them, whatever response or reconnection comes in between.
C15_FirstResponseWins ==
  [][\A c \in Callers :
       ( /\ pc[c] = "wait" /\ ev[c] /\ Mine(c)
         /\ pending[key[c]].error = "None"
         /\ Has(products, key[c])
         /\ pc'[c] = "wait" ) =>
           /\ Has(pending', key[c])
           /\ pending'[key[c]] = pending[key[c]]
           /\ Has(products', key[c])
           /\ products'[key[c]] = products[key[c]]]_vars

\* the calls in flight for key k: registered, not yet returned, and not
\* cancelled by a reconnection
InFlight(k) ==
  {c \in Callers :
     pc[c] \in {"send", "wait", "tmo"} /\ key[c] = k /\ c \notin cancelled}

\* C16: a key in the pending table has exactly one request in flight, and
\* a caller that waits on a signal nobody has set has its record in the
\* table.
C16_TableMatchesRequests ==
  /\ \A k \in DOMAIN pending : Cardinality(InFlight(k)) = 1
  /\ \A c \in Callers : (pc[c] = "wait" /\ ~ev[c]) => Mine(c)

\* C17: the cleanup of a caller whose wait has ended (the delete after a
\* timeout, the pop after the signal) touches only its own record and
\* result: a caller that finds another caller's record under its key
\* leaves the table and the stored results alone and returns no snapshot.
C17_CleanupOwnRecordOnly ==
  [][\A c \in Callers :
       ( /\ pc[c] \in {"wait", "tmo"} /\ pc'[c] = "idle"
         /\ Has(pending, key[c]) /\ pending[key[c]].owner # c ) =>
           /\ pending' = pending
           /\ products' = products
           /\ result'[c].kind # "Ok"]_vars

\* C18: snapshots are not retained: every key with a stored result has a
\* record in the pending table.
C18_NoSnapshotRetained == DOMAIN products \subseteq DOMAIN pending

\* C19: once close() has been called the running flag is never set again,
\* the transport is never connected again, and the background loop ends
\* once it is outside the transport's run call or that call can return.
C19_StaysShutDown ==
  /\ [][cpc # "idle" => ~running']_vars
  /\ [][(cpc # "idle" /\ ws # "open") => ws' # "open"]_vars
  /\ (cpc # "idle" /\ (wpc # "run" \/ ws # "open")) ~> (wpc = "exit")

\* the loop has ended after a close() that found it past a reconnection's
\* clearing step, with a cancelled caller still to resume
C19_Witness ==
  /\ wpc = "exit" /\ threads = 0
  /\ cpc = "closed" /\ ~running /\ ws = "closed"
  /\ cancelled # {}

\* C20: the lock is held only inside a block on the maps: its holder is
\* never a caller that waits for its signal or is sending, nor the
\* background thread outside the callback and the clearing step (so not in
\* the reconnect wait), and whoever holds the lock releases it.
C20_LockOnlyAroundMaps ==
  /\ [](\A c \in Callers : lock = c => AtLockBlock(c))
  /\ [](lock = Worker => wpc \in {"run", "clear"})
  /\ (lock # LockFree) ~> (lock = LockFree)

\* a caller waits for its signal and another is past its registration,
\* about to send, while the background thread holds the lock in a callback
C20_Witness ==
  /\ lock = Worker /\ wpc = "run"
  /\ \E c1, c2 \in Callers :
       /\ pc[c1] = "wait" /\ ~ev[c1]
       /\ pc[c2] = "send" /\ ws = "open"

\* a frame in the raw framing comes back as its text
RawFrameRoundTrip ==
  codec.stage = "received" => codec.out = CodecOk(codec.s)

TypeOK ==
  /\ running \in BOOLEAN
  /\ ws \in {"none", "open", "closed"}
  /\ DOMAIN pending \subseteq Keys
  /\ DOMAIN products \subseteq Keys
  /\ ev \in [Callers -> BOOLEAN]
  /\ pc \in [Callers -> {"idle", "reg", "send", "wait", "tmo"}]
  /\ key \in [Callers -> Keys]
  /\ sent \in [Callers -> BOOLEAN]
  /\ cancelled \subseteq Callers
  /\ wpc \in {"top", "run", "check", "sleep", "clear", "closews", "connect",
              "exit"}
  /\ cpc \in {"idle", "ws", "join", "session", "closed", "raised"}
  /\ threads \in 0..1
  /\ lock \in {LockFree, Worker} \cup Callers
  /\ codec.stage \in {"text", "frame", "inbound", "back", "received"}
  /\ codec.s \in Texts

====
